---- MODULE Spec2Model ----
(***************************************************************************)
(* Model of the cross-chain USDC bridge orchestrator of the ARC dApp       *)
(* (src/components/tabs/BridgeTab.tsx): the source-chain selector, the two *)
(* auto-switch effects, switchToSelectedSource, computeMaxFee and onBridge.*)
(*                                                                         *)
(* Amounts are integers in micro-USDC (parseUnits(x, 6)).  The wallet, the *)
(* RPC node and the contracts are the environment: every read returns a    *)
(* value drawn from a small set or fails, every wallet prompt is approved  *)
(* or rejected, every receipt is "success" or "reverted".  wagmi's         *)
(* chain.id is taken to be the wallet's active network.  The status text   *)
(* and the manual "Switch wallet" button are left out; an ended invocation *)
(* keeps only its outcome and the transactions it submitted.              *)
(***************************************************************************)
EXTENDS Integers, Sequences, FiniteSets, TLC

\* ------------------------------------------------------------------ bounds
MaxUserEvents == 2   \* user gestures (select a source, press Bridge, change network in the wallet)
MaxPending    == 2   \* wallet prompts that may be open at once

\* ------------------------------------------------------- chains and config
ChainKeys == {"ARC", "ETH_SEPOLIA", "BASE_SEPOLIA"}
DestKeys  == {"ETH_SEPOLIA", "BASE_SEPOLIA"}

\* expectedArcChainId and the fallbackChainIds table
srcChainIdResolved(key) ==
    CASE key = "ARC"          -> 5042002
      [] key = "ETH_SEPOLIA"  -> 11155111
      [] key = "BASE_SEPOLIA" -> 84532

ChainIds == {srcChainIdResolved(k) : k \in ChainKeys}

\* dest.domain of the DESTS table (CCTP domain ids)
DestDomain(key) == IF key = "ETH_SEPOLIA" THEN 0 ELSE 6

\* NEXT_PUBLIC_ARC_CCTP_DOMAIN || "26"
arcDomain == 26

\* NEXT_PUBLIC_MAX_FEE_BPS || "500"
maxFeeBps == 500

\* NEXT_PUBLIC_MAX_FEE_USDC_CAP: "0" (no cap) or a configured cap
CapChoices == {0, 250000}

\* ------------------------------------------------------------ input sets
Amounts      == {0, 200000, 300000, 5000010, 10000000}
MemoLens     == {0, 128, 129}   \* UTF-8 byte length of the memo field
MinFees      == {50000, 280000}
ServiceFees  == {10000}
Allowances   == {0, 10000000}
Deficits     == {0, 1}      \* the balance read is totalNeed minus this

\* An address is its 20 bytes, most significant first.  address is the
\* connected account (useAccount), Recipients what the recipient field may
\* hold: nothing, a well-formed address, or text that is no address.
MkAddress(first, last) == [j \in 1..20 |-> IF j = 1 THEN first ELSE IF j = 20 THEN last ELSE 0]
address     == MkAddress(10, 11)
ZeroAddress == [j \in 1..20 |-> 0]
Recipients  == {<<>>, MkAddress(171, 205), <<171, 205>>}

\* ---------------------------------------------------------- pure helpers
\* (a * b) / c of non-negative bigints, truncating; split so that no
\* intermediate product leaves the checker's integer range
MulDiv(a, b, c) == (a \div c) * b + ((a % c) * b) \div c

\* minForwardFeeUsdc: "1.25" for destination domain 0, "0.2" for any other
minForwardFeeUsdc(destinationDomain) == IF destinationDomain = 0 THEN 1250000 ELSE 200000

\* mutant: the percentage fee alone, without the destination floor
computeMaxFee_noFloor(amount, destinationDomain, cap) ==
    LET maxFeeFromPct == MulDiv(amount, maxFeeBps, 10000)
        maxFeeToUse   == IF cap > 0 /\ maxFeeFromPct > cap THEN cap ELSE maxFeeFromPct
    IN  IF maxFeeToUse > amount - 1 THEN [ok |-> FALSE, maxFee |-> 0]
                                    ELSE [ok |-> TRUE, maxFee |-> maxFeeToUse]

\* computeMaxFee: ok = FALSE stands for the thrown
\* "Amount is too small for maxFee constraints."
computeMaxFee(amount, destinationDomain, cap) ==
    LET minForwardFee == minForwardFeeUsdc(destinationDomain)
        maxFeeFromPct == MulDiv(amount, maxFeeBps, 10000)
        byFloor       == IF maxFeeFromPct < minForwardFee THEN minForwardFee ELSE maxFeeFromPct
        maxFeeToUse   == IF cap > 0 /\ byFloor > cap THEN cap ELSE byFloor
        maxFeeCap     == amount - 1
    IN  IF maxFeeToUse > maxFeeCap THEN [ok |-> FALSE, maxFee |-> 0]
                                   ELSE [ok |-> TRUE, maxFee |-> maxFeeToUse]

\* the bump applied in the ARC branch after reading getMinFeeAmount
BumpForProtocolMin(maxFee, minProtocolFee, amount) ==
    IF minProtocolFee > maxFee
    THEN LET bufferedMinFee == MulDiv(minProtocolFee, 110, 100)
             maxFeeCap      == amount - 1
         IN  IF bufferedMinFee > maxFeeCap THEN maxFeeCap ELSE bufferedMinFee
    ELSE maxFee

\* validateAmount / validateMemo / validateRecipient of lib/cctp
validateAmount(amount) == amount > 0
validateMemo(memoLen)  == memoLen <= 128
validateRecipient(recipient) == Len(recipient) = 20

\* addressToBytes32 of lib/cctp: the address left-padded to 32 bytes
addressToBytes32(a) == [j \in 1..32 |-> IF j <= 12 THEN 0 ELSE a[j - 12]]

\* its inverse: the low-order 20 bytes
bytes32ToAddress(b) == [j \in 1..20 |-> b[j + 12]]

\* ------------------------------------------------------------------ state
VARIABLES
    sourceKey,    \* useState sourceKey
    walletChain,  \* the wallet's active network id (wagmi chain.id)
    known,        \* chain keys the wallet has a network entry for
    rpcUrl,       \* NEXT_PUBLIC_<key>_RPC_URL present in the bundle
    feeCap,       \* NEXT_PUBLIC_MAX_FEE_USDC_CAP in micro-USDC, 0 = unset
    pending,      \* open window.ethereum.request prompts, with their awaiting caller
    loading,      \* useState loading
    txHash,       \* useState txHash: number of the invocation whose burn was submitted, 0 = ""
    history,      \* useState history, newest first
    inv,          \* the locals of the running (or last) onBridge invocation
    txs,          \* transactions the running (or last) invocation submitted, in order
    lastTrigger,  \* the last render-triggering event and the wallet requests it issued
    lastCall,     \* the last finished switchToSelectedSource call
    events        \* user gestures so far

vars == <<sourceKey, walletChain, known, rpcUrl, feeCap, pending, loading,
          txHash, history, inv, txs, lastTrigger, lastCall, events>>

\* ---- the history list of the Bridge tab: its pages and its browser storage
VARIABLES
    historyPage,   \* useState historyPage
    localStorage,  \* window.localStorage: key -> the JSON text stored under it
    deployment,    \* (NEXT_PUBLIC_ARC_CHAIN_ID, NEXT_PUBLIC_ARC_ROUTER) of the bundle the page runs
    confirmed      \* every record ever made, oldest first, with the deployment it was made under

ledgerVars == <<historyPage, localStorage, deployment, confirmed>>

\* the pairs (home network id, router address) a bundle may be built for, and
\* the mark of a record made before any such pair was known to the store
Deployments == {[chainId |-> 5042002, router |-> "0xA"], [chainId |-> 5042002, router |-> "0xB"]}
Legacy      == [chainId |-> 0, router |-> ""]

LedgerAtRest ==
    /\ historyPage = 0
    /\ localStorage = <<>>
    /\ deployment = [chainId |-> 5042002, router |-> "0xA"]
    /\ confirmed = <<>>

\* ---- the StreamingPayments contract
VARIABLES
    streams,      \* mapping streams: streamId -> Stream
    streamCount,  \* uint256 streamCount
    streamNow,    \* block.timestamp of the chain the contract is on
    streamHeld,   \* token.balanceOf(the contract)
    streamOut     \* per stream, every token the contract has transferred out for it

streamVars == <<streams, streamCount, streamNow, streamHeld, streamOut>>

StreamAtRest ==
    /\ streams = <<>>
    /\ streamCount = 0
    /\ streamNow = 0
    /\ streamHeld = 0
    /\ streamOut = <<>>

\* ---- the InvoiceMarketplace contract
VARIABLES
    listings,     \* mapping listings: invoiceId -> Listing
    beneficiary,  \* the registry's vendor of each invoice after transferBeneficiary
    sales         \* per invoice, the successful buyInvoice calls so far

marketVars == <<listings, beneficiary, sales>>

\* the invoices of the registry, all Created by the same vendor
InvoiceIds == {1, 2}
Vendor     == "vendor"
NoListing  == [seller |-> "0x0", price |-> 0, status |-> "None", buyer |-> "0x0"]

MarketAtRest ==
    /\ listings = [id \in InvoiceIds |-> NoListing]
    /\ beneficiary = [id \in InvoiceIds |-> Vendor]
    /\ sales = [id \in InvoiceIds |-> 0]

\* ---- the RecurringPayments contract
VARIABLES
    schedules,      \* mapping schedules: scheduleId -> Schedule
    scheduleCount,  \* uint256 scheduleCount
    schedNow,       \* block.timestamp of the chain the contract is on
    executions,     \* per schedule, what it was created with and the block times of its
                    \* last two successful execute calls (-1 = none)
    lastCallOn,     \* the last call made to the contract and how it ended
    deleted         \* the ids deleteSchedule has succeeded on

schedVars == <<schedules, scheduleCount, schedNow, executions, lastCallOn, deleted>>

\* storage never written, which is also what delete leaves behind
NoSchedule == [payer |-> "0x0", intervalSeconds |-> 0, nextRun |-> 0,
               active |-> FALSE, recipients |-> 0]

NoCallOn == [fn |-> "none", result |-> "none", byPayer |-> FALSE,
             early |-> FALSE, wasActive |-> FALSE]

SchedAtRest ==
    /\ schedules = <<>>
    /\ scheduleCount = 0
    /\ schedNow = 0
    /\ executions = <<>>
    /\ lastCallOn = NoCallOn
    /\ deleted = {}

\* ---- pollDeploymentStatus of the Issuance tab
VARIABLES
    attempts,     \* let attempts
    pollPc,       \* where pollDeploymentStatus stands: not called, at the while test, returned, thrown
    replies,      \* what each round of the loop got from the Circle API, in order
    pollError     \* the message of the error pollDeploymentStatus threw, "" = none

pollVars == <<attempts, pollPc, replies, pollError>>

PollAtRest ==
    /\ attempts = 0
    /\ pollPc = "idle"
    /\ replies = <<>>
    /\ pollError = ""

\* ---- refreshFromChain of the Invoice Marketplace tab
VARIABLES
    items,            \* useState items
    isLoading,        \* useState isLoading
    lastError,        \* useState lastError
    refreshAbortRef,  \* useRef refreshAbortRef: the refresh whose controller it holds, 0 = null
    refreshes,        \* every refreshFromChain call so far: its position, its signal, its locals
    cachedIds,        \* the ids stored under storageKey
    itemsBy,          \* the refresh whose setItems call wrote items, 0 = none yet
    staleWrite        \* a refresh called setItems or setIsLoading(false) after a newer one had started

refreshVars == <<items, isLoading, lastError, refreshAbortRef, refreshes, cachedIds,
                 itemsBy, staleWrite>>

RefreshAtRest ==
    /\ items = <<>>
    /\ isLoading = FALSE
    /\ lastError = ""
    /\ refreshAbortRef = 0
    /\ refreshes = <<>>
    /\ cachedIds = {}
    /\ itemsBy = 0
    /\ staleWrite = FALSE

\* the state of the other components, which the bridge leaves alone
others == <<ledgerVars, streamVars, marketVars, schedVars, pollVars, refreshVars>>

OthersAtRest ==
    /\ LedgerAtRest
    /\ StreamAtRest
    /\ MarketAtRest
    /\ SchedAtRest
    /\ PollAtRest
    /\ RefreshAtRest

NoInv == [pc |-> "idle", n |-> 0, src |-> "ARC", dest |-> "ETH_SEPOLIA", amount |-> 0,
          memoLen |-> 0, recipient |-> <<>>, clientChain |-> 0, serviceFee |-> 0, maxFee |-> 0,
          minFee |-> -1, bal |-> -1, allowance |-> -1, error |-> "",
          approveOk |-> TRUE, feeOk |-> TRUE]

NoCall == [issuer |-> "none", seq |-> <<>>, outcome |-> "none"]

RemoveAt(s, i) == [j \in 1..(Len(s) - 1) |-> IF j < i THEN s[j] ELSE s[j + 1]]

\* mutant: the network is never compared
isOnSelectedSource_always(chain, key) == TRUE

isOnSelectedSource(chain, key) == chain = srcChainIdResolved(key)

\* switchToSelectedSource up to its first await: the open
\* window.ethereum.request({method: "wallet_switchEthereumChain"}) prompt
\* (seq: the requests this call has issued so far)
SwitchRequest(issuer, key) ==
    [issuer |-> issuer, method |-> "switch", key |-> key, seq |-> <<"switch">>]

\* mutant: the effect without its "already on the chain" return
EffectRun_noChainCheck(issuer, key, chain, pend) ==
    IF ~rpcUrl[key] THEN pend
    ELSE Append(pend, SwitchRequest(issuer, key))

\* The synchronous part of one run of the auto-switch effect: pend are the
\* open prompts before the run, the result those after it.
EffectRun(issuer, key, chain, pend) ==
    IF chain = srcChainIdResolved(key) THEN pend
    ELSE IF ~rpcUrl[key] THEN pend
    ELSE Append(pend, SwitchRequest(issuer, key))

\* a change of sourceKey or of chain.id re-runs both copies of the effect
EffectsRun(key, chain, pend) ==
    EffectRun("effect", key, chain, EffectRun("effect", key, chain, pend))

CountSwitch(pend) == Cardinality({i \in 1..Len(pend) : pend[i].method = "switch"})

Trigger(kind, key, chain, before, after) ==
    [kind |-> kind, onSource |-> isOnSelectedSource(chain, key),
     switches |-> CountSwitch(after) - CountSwitch(before)]

TypeOK ==
    /\ sourceKey \in ChainKeys
    /\ walletChain \in ChainIds
    /\ known \subseteq ChainKeys
    /\ rpcUrl \in [ChainKeys -> BOOLEAN]
    /\ feeCap \in CapChoices
    /\ Len(pending) <= MaxPending
    /\ loading \in BOOLEAN
    /\ events \in 0..MaxUserEvents

\* The page is opened with the wallet on ARC.  The wallet has no entry yet for
\* the test networks; the bundle carries an RPC URL for ETH_SEPOLIA and none
\* for BASE_SEPOLIA.
Init ==
    /\ sourceKey = "ARC"
    /\ walletChain = srcChainIdResolved("ARC")
    /\ known = {"ARC"}
    /\ rpcUrl = [k \in ChainKeys |-> k # "BASE_SEPOLIA"]
    /\ feeCap \in CapChoices
    \* the effects run once on mount
    /\ pending = EffectsRun("ARC", walletChain, <<>>)
    /\ lastTrigger = Trigger("mount", "ARC", walletChain, <<>>, pending)
    /\ loading = FALSE
    /\ txHash = 0
    /\ history = <<>>
    /\ inv = NoInv
    /\ txs = <<>>
    /\ lastCall = NoCall
    /\ events = 0
    /\ OthersAtRest

\* ------------------------------------------------ source-chain selection
\* an option of the source dropdown: setSourceKey(k), then, sourceKey having
\* changed, the effects.  Only the button that opens the dropdown is disabled
\* while loading; the options of an open dropdown are not.
SelectSource(k) ==
    /\ k # sourceKey
    /\ events < MaxUserEvents
    /\ pending' = EffectsRun(k, walletChain, pending)
    /\ Len(pending') <= MaxPending
    /\ lastTrigger' = Trigger("select", k, walletChain, pending, pending')
    /\ sourceKey' = k
    /\ events' = events + 1
    /\ UNCHANGED <<walletChain, known, rpcUrl, feeCap, loading, txHash, history, inv,
                   txs, lastCall>>
    /\ UNCHANGED others

\* --------------------------------------------------- the wallet answers
\* onBridge's catch / finally: setStatus("Error: ..."), setLoading(false)
\* The locals of the invocation die with it: what is kept of an ended
\* invocation is its number, its source chain and how it ended.
Ended(i, pc, tag) == [NoInv EXCEPT !.pc = pc, !.n = i.n, !.src = i.src, !.error = tag]

Failed(i, tag) == Ended(i, "failed", tag)

\* What onBridge does when its switchToSelectedSource call returns ("ok") or
\* throws: it always throws, the wallet's error or "press Bridge again".
\* (The effects only set the status text.)
CallerInv(req, outcome) ==
    IF req.issuer = "bridge"
    THEN Failed(inv, IF outcome = "ok" THEN "click_again" ELSE outcome)
    ELSE inv

\* The call behind prompt req ends with outcome, pend are the other open
\* prompts and the wallet is then on newChain.  A changed chain.id re-renders
\* and re-runs the effects.
FinishCall(req, outcome, pend, newChain) ==
    /\ pending' = IF newChain # walletChain THEN EffectsRun(sourceKey, newChain, pend)
                  ELSE pend
    /\ Len(pending') <= MaxPending
    /\ walletChain' = newChain
    /\ inv' = CallerInv(req, outcome)
    /\ loading' = IF req.issuer = "bridge" THEN FALSE ELSE loading
    /\ lastCall' = [issuer |-> req.issuer, seq |-> req.seq, outcome |-> outcome]
    /\ lastTrigger' = IF newChain # walletChain
                      THEN Trigger("chainChanged", sourceKey, newChain, pend, pending')
                      ELSE lastTrigger

\* the user approves a wallet_switchEthereumChain prompt
SwitchApproved(i) ==
    /\ i \in 1..Len(pending)
    /\ pending[i].method = "switch"
    /\ pending[i].key \in known
    /\ FinishCall(pending[i], "ok", RemoveAt(pending, i), srcChainIdResolved(pending[i].key))
    /\ UNCHANGED <<sourceKey, known, rpcUrl, feeCap, txHash, history, txs, events>>
    /\ UNCHANGED others

\* the user rejects the prompt (code 4001), or the wallet refuses it for want
\* of a user gesture: the catch re-throws switchError
SwitchRejected(i) ==
    /\ i \in 1..Len(pending)
    /\ pending[i].method = "switch"
    /\ FinishCall(pending[i], "switch_rejected", RemoveAt(pending, i), walletChain)
    /\ UNCHANGED <<sourceKey, known, rpcUrl, feeCap, txHash, history, txs, events>>
    /\ UNCHANGED others

\* the wallet does not know the chain (code 4902): without an RPC URL the call
\* throws; otherwise it issues wallet_addEthereumChain and awaits that
SwitchUnknown(i) ==
    /\ i \in 1..Len(pending)
    /\ pending[i].method = "switch"
    /\ pending[i].key \notin known
    /\ IF ~rpcUrl[pending[i].key]
       THEN FinishCall(pending[i], "missing_rpc", RemoveAt(pending, i), walletChain)
       ELSE /\ pending' = [pending EXCEPT ![i].method = "add",
                                          ![i].seq = Append(pending[i].seq, "add")]
            /\ UNCHANGED <<walletChain, inv, loading, lastCall, lastTrigger>>
    /\ UNCHANGED <<sourceKey, known, rpcUrl, feeCap, txHash, history, txs, events>>
    /\ UNCHANGED others

\* mutant: the switch is requested again once the network has been added
AddApproved_retry(i, activate) ==
    /\ i \in 1..Len(pending)
    /\ pending[i].method = "add"
    /\ known' = known \cup {pending[i].key}
    /\ pending' = [pending EXCEPT ![i].method = "switch",
                                  ![i].seq = Append(pending[i].seq, "switch")]
    /\ UNCHANGED <<walletChain, inv, loading, lastCall, lastTrigger>>
    /\ UNCHANGED <<sourceKey, rpcUrl, feeCap, txHash, history, txs, events>>
    /\ UNCHANGED others

\* the user approves wallet_addEthereumChain; the wallet may or may not make
\* the added network the active one; switchToSelectedSource then returns
AddApproved(i, activate) ==
    /\ i \in 1..Len(pending)
    /\ pending[i].method = "add"
    /\ known' = known \cup {pending[i].key}
    /\ FinishCall(pending[i], "ok", RemoveAt(pending, i),
                  IF activate THEN srcChainIdResolved(pending[i].key) ELSE walletChain)
    /\ UNCHANGED <<sourceKey, rpcUrl, feeCap, txHash, history, txs, events>>
    /\ UNCHANGED others

AddRejected(i) ==
    /\ i \in 1..Len(pending)
    /\ pending[i].method = "add"
    /\ FinishCall(pending[i], "add_rejected", RemoveAt(pending, i), walletChain)
    /\ UNCHANGED <<sourceKey, known, rpcUrl, feeCap, txHash, history, txs, events>>
    /\ UNCHANGED others

\* the user picks another network in the wallet's own UI
UserChangesNetwork(k) ==
    /\ k \in known
    /\ srcChainIdResolved(k) # walletChain
    /\ events < MaxUserEvents
    /\ pending' = EffectsRun(sourceKey, srcChainIdResolved(k), pending)
    /\ Len(pending') <= MaxPending
    /\ lastTrigger' = Trigger("chainChanged", sourceKey, srcChainIdResolved(k),
                              pending, pending')
    /\ walletChain' = srcChainIdResolved(k)
    /\ events' = events + 1
    /\ UNCHANGED <<sourceKey, known, rpcUrl, feeCap, loading, txHash, history,
                   inv, txs, lastCall>>
    /\ UNCHANGED others

\* ---------------------------------------------------------------- onBridge
IsHome(i) == i.src = "ARC"

Fail(tag) ==
    /\ inv' = Failed(inv, tag)
    /\ loading' = FALSE

\* mutant: the Bridge button stays enabled while an invocation runs
BridgeDisabled_never == FALSE

\* disabled={loading || !isConnected} of the Bridge button, the wallet being connected
BridgeDisabled == loading

\* mutant: the memo is not validated
Validated_noMemo(amount, memoLen, recipient) ==
    /\ validateAmount(amount)
    /\ recipient # <<>> => validateRecipient(recipient)

\* validateAmount(amountUsdc); if (memo) validateMemo(memo);
\* recipient.trim() ? validateRecipient(recipient.trim()) : address
Validated(amount, memoLen, recipient) ==
    /\ validateAmount(amount)
    /\ memoLen > 0 => validateMemo(memoLen)
    /\ recipient # <<>> => validateRecipient(recipient)

\* mutant: the burn always mints to the connected account
recipientAddr_account(recipient) == address

\* recipientAddr: the validated recipient, or the connected account when the
\* field is empty
recipientAddr(recipient) == IF recipient # <<>> THEN recipient ELSE address

\* The Bridge button.  Runs onBridge up to its first await: the validations,
\* then either the switch request (wrong network), the router reads
\* (ARC -> other) or the source-chain configuration and computeMaxFee
\* (other -> ARC).  An invocation that ends in the validations keeps the
\* memo it was given.  The destination selected is read in the ARC branch
\* only (the other branch always goes to ARC) and is kept for that branch.
OnBridge(amount, memoLen, recipient, destKey, envOk) ==
    /\ ~BridgeDisabled
    /\ events < MaxUserEvents
    /\ events' = events + 1
    /\ txHash' = 0
    /\ txs' = <<>>
    /\ LET i0  == [NoInv EXCEPT !.n = inv.n + 1, !.src = sourceKey,
                                !.dest = IF sourceKey = "ARC" THEN destKey ELSE NoInv.dest,
                                !.amount = amount, !.memoLen = memoLen,
                                !.recipient = recipient, !.clientChain = walletChain]
           fee == computeMaxFee(amount, arcDomain, feeCap)
       IN  IF ~Validated(amount, memoLen, recipient)
           THEN /\ inv' = [Failed(i0, "validation") EXCEPT !.memoLen = memoLen]
                /\ loading' = FALSE
                /\ UNCHANGED <<pending, lastTrigger>>
           ELSE IF ~isOnSelectedSource(walletChain, sourceKey)
           THEN /\ Len(pending) < MaxPending
                /\ pending' = Append(pending, SwitchRequest("bridge", sourceKey))
                /\ lastTrigger' = Trigger("bridge", sourceKey, walletChain, pending, pending')
                /\ inv' = [i0 EXCEPT !.pc = "switchWait"]
                /\ loading' = TRUE
           ELSE /\ lastTrigger' = Trigger("bridge", sourceKey, walletChain, pending, pending)
                /\ UNCHANGED pending
                /\ IF sourceKey = "ARC"
                   THEN /\ inv' = [i0 EXCEPT !.pc = "readRouter"]
                        /\ loading' = TRUE
                   ELSE IF ~envOk
                   THEN /\ inv' = Failed(i0, "config")
                        /\ loading' = FALSE
                   ELSE IF ~fee.ok
                   THEN /\ inv' = Failed(i0, "fee_constraint")
                        /\ loading' = FALSE
                   ELSE IF fee.maxFee >= amount
                   THEN /\ inv' = Failed(i0, "invalid_fee")
                        /\ loading' = FALSE
                   ELSE /\ inv' = [i0 EXCEPT !.pc = "readBalance", !.maxFee = fee.maxFee]
                        /\ loading' = TRUE
    /\ UNCHANGED <<sourceKey, walletChain, known, rpcUrl, feeCap, history, lastCall>>
    /\ UNCHANGED others

\* await Promise.all([...router reads...]), then computeMaxFee(amountUsdc, dest.domain)
ReadRouter(ok, serviceFee) ==
    /\ inv.pc = "readRouter"
    /\ LET fee == computeMaxFee(inv.amount, DestDomain(inv.dest), feeCap)
       IN  IF ~ok THEN Fail("read_failed")
           ELSE IF ~fee.ok THEN Fail("fee_constraint")
           ELSE /\ inv' = [inv EXCEPT !.pc = "readMinFee", !.serviceFee = serviceFee,
                                      !.maxFee = fee.maxFee]
                /\ UNCHANGED loading
    /\ UNCHANGED <<sourceKey, walletChain, known, rpcUrl, feeCap, pending, txHash,
                   history, txs, lastTrigger, lastCall, events>>
    /\ UNCHANGED others

\* mutant: the buffered minimum is taken as it is, unclamped and unchecked
ReadMinFee_noClamp(ok, minProtocolFee) ==
    /\ inv.pc = "readMinFee"
    /\ inv' = [inv EXCEPT !.pc = "readBalance",
                          !.maxFee = IF ok /\ minProtocolFee > inv.maxFee
                                     THEN MulDiv(minProtocolFee, 110, 100) ELSE inv.maxFee,
                          !.minFee = IF ok THEN minProtocolFee ELSE -2]
    /\ UNCHANGED <<sourceKey, walletChain, known, rpcUrl, feeCap, pending, loading, txHash,
                   history, txs, lastTrigger, lastCall, events>>
    /\ UNCHANGED others

\* try { getMinFeeAmount(amount) ... } catch { ignore }, then the maxFee >= amount check
ReadMinFee(ok, minProtocolFee) ==
    /\ inv.pc = "readMinFee"
    /\ LET maxFee == IF ok THEN BumpForProtocolMin(inv.maxFee, minProtocolFee, inv.amount)
                     ELSE inv.maxFee
       IN  IF maxFee >= inv.amount THEN Fail("invalid_fee")
           ELSE /\ inv' = [inv EXCEPT !.pc = "readBalance", !.maxFee = maxFee,
                                      !.minFee = IF ok THEN minProtocolFee ELSE -2]
                /\ UNCHANGED loading
    /\ UNCHANGED <<sourceKey, walletChain, known, rpcUrl, feeCap, pending, txHash,
                   history, txs, lastTrigger, lastCall, events>>
    /\ UNCHANGED others

\* mutant: the service fee is left out of the sum
totalNeed_amountOnly(i) == i.amount

\* amount + feeAmount on ARC, amount on an external source chain
totalNeed(i) == IF IsHome(i) THEN i.amount + i.serviceFee ELSE i.amount

\* balanceOf(address), then the balance check.  The balance read is the sum
\* the transfer takes from the account, less deficit.
ReadBalance(ok, deficit) ==
    /\ inv.pc = "readBalance"
    /\ LET bal == (IF IsHome(inv) THEN inv.amount + inv.serviceFee ELSE inv.amount) - deficit
       IN  IF ~ok THEN Fail("read_failed")
           ELSE IF bal < totalNeed(inv)
           THEN /\ inv' = [Failed(inv, "insufficient_balance") EXCEPT
                               !.amount = inv.amount, !.serviceFee = inv.serviceFee,
                               !.bal = bal]
                /\ loading' = FALSE
           ELSE /\ inv' = [inv EXCEPT !.pc = "readAllowance", !.bal = bal]
                /\ UNCHANGED loading
    /\ UNCHANGED <<sourceKey, walletChain, known, rpcUrl, feeCap, pending, txHash,
                   history, txs, lastTrigger, lastCall, events>>
    /\ UNCHANGED others

\* mutant: the service-fee transfer is skipped
AfterApprove_skipFee(i) == "burnSubmit"

\* the step after the approval: the service fee on ARC, the burn elsewhere
AfterApprove(i) == IF IsHome(i) THEN "feeSubmit" ELSE "burnSubmit"

\* mutant: the approval is submitted whatever the allowance
ReadAllowance_always(ok, allowance) ==
    /\ inv.pc = "readAllowance"
    /\ IF ~ok THEN Fail("read_failed")
       ELSE /\ inv' = [inv EXCEPT !.allowance = allowance, !.pc = "approveSubmit"]
            /\ UNCHANGED loading
    /\ UNCHANGED <<sourceKey, walletChain, known, rpcUrl, feeCap, pending, txHash,
                   history, txs, lastTrigger, lastCall, events>>
    /\ UNCHANGED others

\* allowance(address, tokenMessengerV2), then the allowance < amount test
ReadAllowance(ok, allowance) ==
    /\ inv.pc = "readAllowance"
    /\ IF ~ok THEN Fail("read_failed")
       ELSE /\ inv' = [inv EXCEPT !.allowance = allowance,
                                  !.pc = IF allowance < inv.amount THEN "approveSubmit"
                                         ELSE AfterApprove(inv)]
            /\ UNCHANGED loading
    /\ UNCHANGED <<sourceKey, walletChain, known, rpcUrl, feeCap, pending, txHash,
                   history, txs, lastTrigger, lastCall, events>>
    /\ UNCHANGED others

Tx(kind, value) ==
    [kind |-> kind, chain |-> walletChain, value |-> value, maxFee |-> 0, domain |-> -1,
     mintRecipient |-> <<>>, destCaller |-> <<>>]

\* walletClient.writeContract: the client is bound to the chain of the render
\* that created it and refuses to send when the wallet is on another chain;
\* otherwise the user signs or rejects.  Nothing is retried.
WriteContract(tx, signed, nextPc) ==
    IF walletChain # inv.clientChain THEN Fail("chain_mismatch") /\ UNCHANGED txs
    ELSE IF ~signed THEN Fail("tx_rejected") /\ UNCHANGED txs
    ELSE /\ txs' = Append(txs, tx)
         /\ inv' = [inv EXCEPT !.pc = nextPc]
         /\ UNCHANGED loading

ApproveSubmit(signed) ==
    /\ inv.pc = "approveSubmit"
    /\ WriteContract(Tx("approve", inv.amount), signed, "approveReceipt")
    /\ UNCHANGED <<sourceKey, walletChain, known, rpcUrl, feeCap, pending, txHash,
                   history, lastTrigger, lastCall, events>>
    /\ UNCHANGED others

\* await waitForTransactionReceipt({hash: approveTx}): the receipt's status is not read
ApproveReceipt(outcome) ==
    /\ inv.pc = "approveReceipt"
    /\ IF outcome = "error" THEN Fail("receipt_error")
       ELSE /\ inv' = [inv EXCEPT !.pc = AfterApprove(inv), !.approveOk = (outcome = "success")]
            /\ UNCHANGED loading
    /\ UNCHANGED <<sourceKey, walletChain, known, rpcUrl, feeCap, pending, txHash,
                   history, txs, lastTrigger, lastCall, events>>
    /\ UNCHANGED others

\* transfer(feeCollector, feeAmount)
FeeSubmit(signed) ==
    /\ inv.pc = "feeSubmit"
    /\ WriteContract(Tx("fee", inv.serviceFee), signed, "feeReceipt")
    /\ UNCHANGED <<sourceKey, walletChain, known, rpcUrl, feeCap, pending, txHash,
                   history, lastTrigger, lastCall, events>>
    /\ UNCHANGED others

\* mutant: a reverted service-fee transfer is sent again
FeeReceipt_resubmit(outcome) ==
    /\ inv.pc = "feeReceipt"
    /\ IF outcome = "error" THEN Fail("receipt_error")
       ELSE /\ inv' = [inv EXCEPT !.pc = IF outcome = "success" THEN "burnSubmit" ELSE "feeSubmit",
                                  !.feeOk = (outcome = "success")]
            /\ UNCHANGED loading
    /\ UNCHANGED <<sourceKey, walletChain, known, rpcUrl, feeCap, pending, txHash,
                   history, txs, lastTrigger, lastCall, events>>
    /\ UNCHANGED others

\* await waitForTransactionReceipt({hash: feeTx}): the receipt's status is not read
FeeReceipt(outcome) ==
    /\ inv.pc = "feeReceipt"
    /\ IF outcome = "error" THEN Fail("receipt_error")
       ELSE /\ inv' = [inv EXCEPT !.pc = "burnSubmit", !.feeOk = (outcome = "success")]
            /\ UNCHANGED loading
    /\ UNCHANGED <<sourceKey, walletChain, known, rpcUrl, feeCap, pending, txHash,
                   history, txs, lastTrigger, lastCall, events>>
    /\ UNCHANGED others

\* mutant: the router's destination caller is used in both directions
BurnTx_routerCaller(i) ==
    [kind |-> "burn", chain |-> walletChain, value |-> i.amount, maxFee |-> i.maxFee,
     domain |-> IF IsHome(i) THEN DestDomain(i.dest) ELSE arcDomain,
     mintRecipient |-> addressToBytes32(recipientAddr(i.recipient)),
     destCaller |-> [j \in 1..32 |-> IF j = 32 THEN 1 ELSE 0]]

\* the destinationCaller the router is configured with (read with the other
\* router settings)
routerDestCaller == [j \in 1..32 |-> IF j = 32 THEN 1 ELSE 0]

\* the arguments of depositForBurnWithHook
BurnTx(i) ==
    [kind |-> "burn", chain |-> walletChain, value |-> i.amount, maxFee |-> i.maxFee,
     domain |-> IF IsHome(i) THEN DestDomain(i.dest) ELSE arcDomain,
     mintRecipient |-> addressToBytes32(recipientAddr(i.recipient)),
     destCaller |-> IF IsHome(i) THEN routerDestCaller ELSE addressToBytes32(ZeroAddress)]

\* depositForBurnWithHook(...), then setTxHash(burnTx)
BurnSubmit(signed) ==
    /\ inv.pc = "burnSubmit"
    /\ WriteContract(BurnTx(inv), signed, "burnReceipt")
    /\ txHash' = IF inv'.pc = "burnReceipt" THEN inv.n ELSE txHash
    /\ UNCHANGED <<sourceKey, walletChain, known, rpcUrl, feeCap, pending,
                   history, lastTrigger, lastCall, events>>
    /\ UNCHANGED others

HistoryItem(i) ==
    [ts |-> i.n, to |-> "recipient", txHash |-> i.n, memoLen |-> i.memoLen,
     direction |-> "ARC_TO_OTHER", src |-> i.src]

\* the direction label of a listed history item
DirectionLabel(h) == IF h.direction = "OTHER_TO_ARC" THEN "Other -> ARC" ELSE "ARC -> Other"

\* mutant: the new item is put behind the earlier ones
setHistoryPrepend_append(item, prev) == Append(prev, item)

\* setHistory((prev) => [item, ...prev])
setHistoryPrepend(item, prev) == <<item>> \o prev

\* mutant: the history item is added before the receipt's status is read
BurnReceipt_recordFirst(outcome) ==
    /\ inv.pc = "burnReceipt"
    /\ IF outcome = "error" THEN Fail("receipt_error") /\ UNCHANGED history
       ELSE /\ history' = setHistoryPrepend(HistoryItem(inv), history)
            /\ inv' = Ended(inv, IF outcome = "success" THEN "done" ELSE "failed",
                            IF outcome = "success" THEN "" ELSE "burn_reverted")
            /\ loading' = FALSE
    /\ UNCHANGED <<sourceKey, walletChain, known, rpcUrl, feeCap, pending, txHash,
                   txs, lastTrigger, lastCall, events>>
    /\ UNCHANGED others

\* the burn receipt: status "success" prepends the history item, anything else throws
BurnReceipt(outcome) ==
    /\ inv.pc = "burnReceipt"
    /\ IF outcome = "error" THEN Fail("receipt_error") /\ UNCHANGED history
       ELSE IF outcome # "success" THEN Fail("burn_reverted") /\ UNCHANGED history
       ELSE /\ history' = setHistoryPrepend(HistoryItem(inv), history)
            /\ inv' = Ended(inv, "done", "")
            /\ loading' = FALSE
    /\ UNCHANGED <<sourceKey, walletChain, known, rpcUrl, feeCap, pending, txHash,
                   txs, lastTrigger, lastCall, events>>
    /\ UNCHANGED others

\* ------------------------------------------------------------ specification
ReceiptOutcomes == {"success", "reverted", "error"}

Next ==
    \/ \E k \in ChainKeys : SelectSource(k)
    \/ \E i \in 1..MaxPending : SwitchApproved(i)
    \/ \E i \in 1..MaxPending : SwitchRejected(i)
    \/ \E i \in 1..MaxPending : SwitchUnknown(i)
    \/ \E i \in 1..MaxPending, a \in BOOLEAN : AddApproved(i, a)
    \/ \E i \in 1..MaxPending : AddRejected(i)
    \/ \E k \in ChainKeys : UserChangesNetwork(k)
    \/ \E a \in Amounts, m \in MemoLens, r \in Recipients, d \in DestKeys, e \in BOOLEAN :
          OnBridge(a, m, r, d, e)
    \/ \E ok \in BOOLEAN, f \in ServiceFees : ReadRouter(ok, f)
    \/ \E ok \in BOOLEAN, m \in MinFees : ReadMinFee(ok, m)
    \/ \E ok \in BOOLEAN, d \in Deficits : ReadBalance(ok, d)
    \/ \E ok \in BOOLEAN, a \in Allowances : ReadAllowance(ok, a)
    \/ \E s \in BOOLEAN : ApproveSubmit(s)
    \/ \E o \in ReceiptOutcomes : ApproveReceipt(o)
    \/ \E s \in BOOLEAN : FeeSubmit(s)
    \/ \E o \in ReceiptOutcomes : FeeReceipt(o)
    \/ \E s \in BOOLEAN : BurnSubmit(s)
    \/ \E o \in ReceiptOutcomes : BurnReceipt(o)

Spec == Init /\ [][Next]_vars

\* ------------------------------------------------- the history list
\* The list of the Bridge tab over several page loads: a confirmed burn puts
\* its record in front, the persist effect stores the list, a page load
\* reads it back, Prev / Next turn its pages.  (The bridge steps that lead
\* to a confirmed burn are those of Spec.)
MaxHistory == 6     \* records the list may hold

\* history.slice(historyPage * 5, historyPage * 5 + 5)
PageSize == 5

\* the key the list is stored under
storageKey(d) == "bridge_history"

\* JSON.stringify(history): a field whose value is undefined (no memo) is left out
JSONstringify(h) ==
    [j \in 1..Len(h) |->
        IF h[j].memoLen = 0
        THEN [f \in DOMAIN h[j] \ {"memoLen"} |-> h[j][f]]
        ELSE h[j]]

\* JSON.parse(saved): a field that is not there reads as undefined
JSONparse(saved) ==
    [j \in 1..Len(saved) |->
        IF "memoLen" \in DOMAIN saved[j] THEN saved[j]
        ELSE [f \in DOMAIN saved[j] \cup {"memoLen"} |->
                 IF f = "memoLen" THEN 0 ELSE saved[j][f]]]

\* the load effect: getItem, and setHistory(JSON.parse(saved)) when there is something
LoadHistory(store, d) ==
    IF storageKey(d) \in DOMAIN store /\ store[storageKey(d)] # <<>>
    THEN JSONparse(store[storageKey(d)])
    ELSE <<>>

\* the persist effect: if (history.length > 0) setItem(key, JSON.stringify(history))
PersistHistory(store, d, h) ==
    IF Len(h) > 0
    THEN [k \in DOMAIN store \cup {storageKey(d)} |->
             IF k = storageKey(d) THEN JSONstringify(h) ELSE store[k]]
    ELSE store

\* the items the list shows on page p
HistoryPageItems(h, p) ==
    LET from == p * PageSize + 1
        to   == IF p * PageSize + PageSize < Len(h) THEN p * PageSize + PageSize ELSE Len(h)
    IN  IF from > Len(h) THEN <<>> ELSE SubSeq(h, from, to)

\* the record of the n-th confirmed burn
LedgerItem(n, memoLen) == HistoryItem([NoInv EXCEPT !.n = n, !.memoLen = memoLen])

BridgeAtRest ==
    /\ sourceKey = "ARC"
    /\ walletChain = srcChainIdResolved("ARC")
    /\ known = {"ARC"}
    /\ rpcUrl = [k \in ChainKeys |-> k # "BASE_SEPOLIA"]
    /\ feeCap = 0
    /\ pending = <<>>
    /\ lastTrigger = Trigger("mount", "ARC", walletChain, <<>>, <<>>)
    /\ loading = FALSE
    /\ txHash = 0
    /\ inv = NoInv
    /\ txs = <<>>
    /\ lastCall = NoCall
    /\ events = 0

bridgeRest == <<sourceKey, walletChain, known, rpcUrl, feeCap, pending, loading,
                txHash, inv, txs, lastTrigger, lastCall, events,
                streamVars, marketVars, schedVars, pollVars, refreshVars>>

\* The page is opened under some deployment; the browser holds either no
\* stored list or one written before the store knew of deployments.
InitLedger ==
    /\ BridgeAtRest
    /\ StreamAtRest /\ MarketAtRest /\ SchedAtRest /\ PollAtRest /\ RefreshAtRest
    /\ deployment \in Deployments
    /\ \E k \in {0, 2} :
          /\ confirmed = [j \in 1..k |-> [item |-> LedgerItem(j, 0), under |-> Legacy]]
          /\ localStorage = PersistHistory(<<>>, Legacy,
                                [j \in 1..k |-> LedgerItem(k + 1 - j, 0)])
    /\ history = LoadHistory(localStorage, deployment)
    /\ historyPage = 0

\* a burn is confirmed: setHistory puts its record in front and, history
\* having changed, the persist effect runs
RecordTransfer(memoLen) ==
    /\ Len(history) < MaxHistory
    /\ LET item == LedgerItem(Len(confirmed) + 1, memoLen)
       IN  /\ history' = setHistoryPrepend(item, history)
           /\ confirmed' = Append(confirmed, [item |-> item, under |-> deployment])
    /\ localStorage' = PersistHistory(localStorage, deployment, history')
    /\ UNCHANGED <<historyPage, deployment, bridgeRest>>

\* the Prev button, disabled on page 0
PrevPage ==
    /\ ~(historyPage <= 0)
    /\ historyPage' = IF historyPage - 1 > 0 THEN historyPage - 1 ELSE 0
    /\ UNCHANGED <<history, localStorage, deployment, confirmed, bridgeRest>>

\* the Next button, disabled on the last page
NextPage ==
    /\ ~((historyPage + 1) * PageSize >= Len(history))
    /\ historyPage' = historyPage + 1
    /\ UNCHANGED <<history, localStorage, deployment, confirmed, bridgeRest>>

\* the page is loaded again, by a bundle built for deployment d: the state
\* starts over, the load effect reads the store, the persist effect writes
\* what was read
OpenPage(d) ==
    /\ deployment' = d
    /\ history' = LoadHistory(localStorage, d)
    /\ historyPage' = 0
    /\ localStorage' = PersistHistory(localStorage, d, history')
    /\ UNCHANGED <<confirmed, bridgeRest>>

NextLedger ==
    \/ \E m \in {0, 128} : RecordTransfer(m)
    \/ PrevPage
    \/ NextPage
    \/ \E d \in Deployments : OpenPage(d)

SpecLedger == InitLedger /\ [][NextLedger]_<<history, ledgerVars>>

\* ------------------------------------------------- StreamingPayments
\* (src/unnamed/part_003, lines 65-180).  One token; the chain's clock only
\* moves forward; a call that reverts leaves no trace and is not a step.
MaxStreams == 2
MaxTime    == 4

Accounts == {"alice", "bob"}
Totals   == {3, 4}

\* the bridge with nothing in flight and an empty history
BridgeIdle == BridgeAtRest /\ history = <<>>

streamRest == <<vars, ledgerVars, marketVars, schedVars, pollVars, refreshVars>>

vested(streamId, ts) ==
    LET s == streams[streamId]
    IN  IF ts <= s.start THEN 0
        ELSE IF ts >= s.end THEN s.total
        ELSE (s.total * (ts - s.start)) \div (s.end - s.start)

claimable(streamId) ==
    LET s == streams[streamId]
        v == vested(streamId, streamNow)
    IN  IF v <= s.claimed THEN 0 ELSE v - s.claimed

InitStream ==
    /\ BridgeIdle
    /\ LedgerAtRest /\ MarketAtRest /\ SchedAtRest /\ PollAtRest /\ RefreshAtRest
    /\ StreamAtRest

createStream(sender, recipient, total, start, end) ==
    /\ streamCount < MaxStreams
    /\ ~(total = 0)
    /\ ~(end <= start)
    /\ ~(start < streamNow)
    /\ streamCount' = streamCount + 1
    /\ streams' = Append(streams, [sender |-> sender, recipient |-> recipient,
                                   start |-> start, end |-> end, total |-> total,
                                   claimed |-> 0, canceled |-> FALSE])
    /\ streamHeld' = streamHeld + total
    /\ streamOut' = Append(streamOut, 0)
    /\ UNCHANGED <<streamNow, streamRest>>

claim(sender, streamId) ==
    /\ streamId \in DOMAIN streams
    /\ ~(sender # streams[streamId].recipient)
    /\ LET amt == claimable(streamId)
       IN  /\ amt > 0
           /\ streamHeld >= amt
           /\ streams' = [streams EXCEPT ![streamId].claimed = @ + amt]
           /\ streamHeld' = streamHeld - amt
           /\ streamOut' = [streamOut EXCEPT ![streamId] = @ + amt]
    /\ UNCHANGED <<streamCount, streamNow, streamRest>>

cancel(sender, streamId) ==
    /\ streamId \in DOMAIN streams
    /\ ~(sender # streams[streamId].sender)
    /\ ~streams[streamId].canceled
    /\ LET s         == streams[streamId]
           v         == vested(streamId, streamNow)
           payout    == IF v > s.claimed THEN v - s.claimed ELSE 0
           remaining == s.total - s.claimed - payout
       IN  /\ streamHeld >= payout + remaining
           /\ streams' = [streams EXCEPT ![streamId].canceled = TRUE,
                                         ![streamId].claimed = @ + payout]
           /\ streamHeld' = streamHeld - payout - remaining
           /\ streamOut' = [streamOut EXCEPT ![streamId] = @ + payout + remaining]
    /\ UNCHANGED <<streamCount, streamNow, streamRest>>

\* a later block
StreamTick ==
    /\ streamNow < MaxTime
    /\ streamNow' = streamNow + 1
    /\ UNCHANGED <<streams, streamCount, streamHeld, streamOut, streamRest>>

NextStream ==
    \/ \E total \in Totals, start \in 0..MaxTime, end \in 1..MaxTime :
          createStream("alice", "bob", total, start, end)
    \/ \E a \in Accounts, id \in 1..MaxStreams : claim(a, id)
    \/ \E a \in Accounts, id \in 1..MaxStreams : cancel(a, id)
    \/ StreamTick

SpecStream == InitStream /\ [][NextStream]_streamVars

\* ------------------------------------------------- InvoiceMarketplace
\* (src/contracts/InvoiceMarketplace.sol; both versions have the same three
\* functions).  The registry reports every invoice as Created (status 1) by
\* Vendor, in one token, and transferBeneficiary does what its name says.
\* A call that reverts is not a step.
MaxSales == 2

Traders == {Vendor, "buyer"}
Prices  == {1, 2}

marketRest == <<vars, ledgerVars, streamVars, schedVars, pollVars, refreshVars>>

\* registry.invoices(invoiceId): (vendor, status)
registryInvoices(invoiceId) == [vendor |-> Vendor, status |-> 1]

InitMarket ==
    /\ BridgeIdle
    /\ LedgerAtRest /\ StreamAtRest /\ SchedAtRest /\ PollAtRest /\ RefreshAtRest
    /\ MarketAtRest

listInvoice(sender, invoiceId, price) ==
    /\ ~(price = 0)
    /\ ~(listings[invoiceId].status = "Active")
    /\ ~(registryInvoices(invoiceId).status # 1)
    /\ ~(registryInvoices(invoiceId).vendor # sender)
    /\ listings' = [listings EXCEPT ![invoiceId] =
                       [seller |-> sender, price |-> price, status |-> "Active", buyer |-> "0x0"]]
    /\ UNCHANGED <<beneficiary, sales, marketRest>>

cancelListing(sender, invoiceId) ==
    /\ ~(listings[invoiceId].status # "Active")
    /\ ~(listings[invoiceId].seller # sender)
    /\ listings' = [listings EXCEPT ![invoiceId].status = "Cancelled"]
    /\ UNCHANGED <<beneficiary, sales, marketRest>>

\* transferFrom(buyer, seller, price) succeeds: the buyer has approved and holds the price
buyInvoice(sender, invoiceId) ==
    /\ sales[invoiceId] < MaxSales
    /\ ~(listings[invoiceId].status # "Active")
    /\ ~(registryInvoices(invoiceId).status # 1)
    /\ ~(registryInvoices(invoiceId).vendor # listings[invoiceId].seller)
    /\ beneficiary' = [beneficiary EXCEPT ![invoiceId] = sender]
    /\ listings' = [listings EXCEPT ![invoiceId].status = "Sold", ![invoiceId].buyer = sender]
    /\ sales' = [sales EXCEPT ![invoiceId] = @ + 1]
    /\ UNCHANGED marketRest

NextMarket ==
    \/ \E a \in Traders, id \in InvoiceIds, p \in Prices : listInvoice(a, id, p)
    \/ \E a \in Traders, id \in InvoiceIds : cancelListing(a, id)
    \/ \E a \in Traders, id \in InvoiceIds : buyInvoice(a, id)

SpecMarket == InitMarket /\ [][NextMarket]_marketVars

\* ------------------------------------------------- RecurringPayments
\* (src/contracts/RecurringPayments.sol).  A call to toggleActive,
\* deleteSchedule or execute is a step also when it reverts: it then changes
\* nothing but lastCallOn, which keeps how it ended.  A reverted
\* createSchedule is not a step.
\* A schedule keeps the number of its recipients; whether the payer's
\* allowance and balance cover a run is the token's answer at the time.
MaxSchedules == 1
MaxSchedTime == 2

Senders   == {"payer", "other"}
Intervals == {1, 2}
Delays    == {0, 1}

schedRest == <<vars, ledgerVars, streamVars, marketVars, pollVars, refreshVars>>

\* schedules[scheduleId] of the mapping
scheduleAt(scheduleId) ==
    IF scheduleId \in DOMAIN schedules THEN schedules[scheduleId] ELSE NoSchedule

\* the record of a call: how it ended; of a toggleActive or deleteSchedule
\* call whether the schedule's payer made it; of an execute call whether it
\* came before nextRun and whether the schedule was active
CallOn(fn, id, sender, result) ==
    [fn |-> fn, result |-> result,
     byPayer |-> fn \in {"toggleActive", "deleteSchedule"} /\ sender = scheduleAt(id).payer,
     early |-> fn = "execute" /\ schedNow < scheduleAt(id).nextRun,
     wasActive |-> fn = "execute" /\ scheduleAt(id).active]

InitSched ==
    /\ BridgeIdle
    /\ LedgerAtRest /\ StreamAtRest /\ MarketAtRest /\ PollAtRest /\ RefreshAtRest
    /\ SchedAtRest

createSchedule(sender, intervalSeconds, firstRun) ==
    /\ scheduleCount < MaxSchedules
    /\ ~(intervalSeconds = 0)
    /\ ~(firstRun < schedNow)
    /\ lastCallOn' = CallOn("createSchedule", scheduleCount + 1, sender, "ok")
    /\ scheduleCount' = scheduleCount + 1
    /\ schedules' = Append(schedules,
           [payer |-> sender, intervalSeconds |-> intervalSeconds,
            nextRun |-> firstRun, active |-> TRUE, recipients |-> 1])
    /\ executions' = Append(executions,
           [payer |-> sender, intervalSeconds |-> intervalSeconds,
            firstRun |-> firstRun, prev |-> -1, last |-> -1])
    /\ UNCHANGED <<schedNow, deleted, schedRest>>

toggleActive_anyone(sender, scheduleId, active) ==
    /\ lastCallOn' = CallOn("toggleActive", scheduleId, sender, "ok")
    /\ schedules' = [schedules EXCEPT ![scheduleId].active = active]
    /\ UNCHANGED <<scheduleCount, schedNow, executions, deleted, schedRest>>

toggleActive(sender, scheduleId, active) ==
    LET result == IF scheduleAt(scheduleId).payer # sender THEN "NotPayer" ELSE "ok"
    IN  /\ lastCallOn' = CallOn("toggleActive", scheduleId, sender, result)
        /\ IF result = "ok"
           THEN schedules' = [schedules EXCEPT ![scheduleId].active = active]
           ELSE UNCHANGED schedules
        /\ UNCHANGED <<scheduleCount, schedNow, executions, deleted, schedRest>>

deleteSchedule(sender, scheduleId) ==
    LET result == IF scheduleAt(scheduleId).payer # sender THEN "NotPayer" ELSE "ok"
    IN  /\ lastCallOn' = CallOn("deleteSchedule", scheduleId, sender, result)
        /\ IF result = "ok"
           THEN /\ schedules' = [schedules EXCEPT ![scheduleId] = NoSchedule]
                /\ deleted' = deleted \cup {scheduleId}
           ELSE UNCHANGED <<schedules, deleted>>
        /\ UNCHANGED <<scheduleCount, schedNow, executions, schedRest>>

execute_notDue(sender, scheduleId, funded) ==
    LET s      == scheduleAt(scheduleId)
        result == IF ~s.active THEN "NotActive"
                  ELSE IF s.recipients > 0 /\ ~funded THEN "TRANSFER_FROM_FAILED"
                  ELSE "ok"
    IN  /\ lastCallOn' = CallOn("execute", scheduleId, sender, result)
        /\ IF result = "ok"
           THEN /\ schedules' = [schedules EXCEPT ![scheduleId].nextRun = schedNow + s.intervalSeconds]
                /\ executions' = [executions EXCEPT ![scheduleId].prev = executions[scheduleId].last,
                                                    ![scheduleId].last = schedNow]
           ELSE UNCHANGED <<schedules, executions>>
        /\ UNCHANGED <<scheduleCount, schedNow, deleted, schedRest>>

execute(sender, scheduleId, funded) ==
    LET s      == scheduleAt(scheduleId)
        result == IF ~s.active THEN "NotActive"
                  ELSE IF schedNow < s.nextRun THEN "TooEarly"
                  ELSE IF s.recipients > 0 /\ ~funded THEN "TRANSFER_FROM_FAILED"
                  ELSE "ok"
    IN  /\ lastCallOn' = CallOn("execute", scheduleId, sender, result)
        /\ IF result = "ok"
           THEN /\ schedules' = [schedules EXCEPT ![scheduleId].nextRun = schedNow + s.intervalSeconds]
                /\ executions' = [executions EXCEPT ![scheduleId].prev = executions[scheduleId].last,
                                                    ![scheduleId].last = schedNow]
           ELSE UNCHANGED <<schedules, executions>>
        /\ UNCHANGED <<scheduleCount, schedNow, deleted, schedRest>>

\* a later block
SchedTick ==
    /\ schedNow < MaxSchedTime
    /\ schedNow' = schedNow + 1
    /\ UNCHANGED <<schedules, scheduleCount, executions, lastCallOn, deleted, schedRest>>

NextSched ==
    \/ \E i \in Intervals, d \in Delays : createSchedule("payer", i, schedNow + d)
    \/ \E a \in Senders, id \in 1..MaxSchedules, on \in BOOLEAN : toggleActive(a, id, on)
    \/ \E a \in Senders, id \in 1..MaxSchedules : deleteSchedule(a, id)
    \/ \E a \in Senders, id \in 1..MaxSchedules, funded \in BOOLEAN : execute(a, id, funded)
    \/ SchedTick

SpecSched == InitSched /\ [][NextSched]_schedVars

\* ------------------------------------------------- pollDeploymentStatus
\* (src/components/tabs/IssuanceTab.tsx, lines 43-95; the copy in
\* src/unnamed/part_001, lines 157-220, has the same loop).  One step is one
\* round of the while loop.  STABLECOIN_CONFIG.MAX_POLL_ATTEMPTS is set in
\* components/tabs/stablecoin; any positive number does here.
MAX_POLL_ATTEMPTS == 3

\* what a round can get: checkTransactionStatus throws; it reports a state
\* that is neither COMPLETE nor FAILED; it reports FAILED; it reports
\* COMPLETE and getContractDetails then throws, reports the contract not yet
\* complete, or reports it complete with its address
Replies == {"threw", "PENDING", "FAILED", "COMPLETE:threw", "COMPLETE:PENDING", "COMPLETE:COMPLETE"}

pollRest == <<vars, ledgerVars, streamVars, marketVars, schedVars, refreshVars>>

InitPoll ==
    /\ BridgeIdle
    /\ LedgerAtRest /\ StreamAtRest /\ MarketAtRest /\ SchedAtRest /\ RefreshAtRest
    /\ PollAtRest

\* handleDeploy calls pollDeploymentStatus
PollCall ==
    /\ pollPc = "idle"
    /\ pollPc' = "while"
    /\ attempts' = 0
    /\ UNCHANGED <<replies, pollError, pollRest>>

\* one round: the try block and, when it throws, the catch block
PollRound(reply) ==
    /\ pollPc = "while"
    /\ attempts < MAX_POLL_ATTEMPTS
    /\ replies' = Append(replies, reply)
    /\ IF reply = "COMPLETE:COMPLETE"
       THEN /\ pollPc' = "returned"
            /\ UNCHANGED attempts
       ELSE \* "FAILED" throws inside the try: the catch logs it and counts the round
            /\ attempts' = attempts + 1
            /\ UNCHANGED pollPc
    /\ UNCHANGED <<pollError, pollRest>>

\* the loop is left: the timeout error
PollTimeout ==
    /\ pollPc = "while"
    /\ ~(attempts < MAX_POLL_ATTEMPTS)
    /\ pollPc' = "thrown"
    /\ pollError' = "Deployment timeout"
    /\ UNCHANGED <<attempts, replies, pollRest>>

NextPoll ==
    \/ PollCall
    \/ \E reply \in Replies : PollRound(reply)
    \/ PollTimeout

SpecPoll == InitPoll /\ [][NextPoll]_pollVars

\* ------------------------------------------------- refreshFromChain
\* (src/components/tabs/InvoiceMarketplaceTab.tsx, lines 300-397), while the
\* tab is mounted and configured.  A refresh runs from one await to the next
\* in one step; the RPC node answers each request as it likes.  The ids of a
\* refresh are kept as a set and read in ascending order; a row is the id
\* and the status read for it, and an invoice with a higher id was created
\* later.
MaxRefreshes == 2

ListedIds   == {1, 2}
RowStatuses == {0, 1, 3}

CachedDataError == "Could not fetch latest listings from chain. Showing cached data."

refreshRest == <<vars, ledgerVars, streamVars, marketVars, schedVars, pollVars>>

Row(id, status) == [invoiceId |-> id, status |-> status, createdAt |-> id]

\* next.sort((a, b) => Number(b.createdAt - a.createdAt))
RECURSIVE SortRows(_)
SortRows(rows) ==
    IF rows = <<>> THEN <<>>
    ELSE LET k == CHOOSE k \in 1..Len(rows) :
                      \A j \in 1..Len(rows) : rows[j].createdAt <= rows[k].createdAt
         IN  <<rows[k]>> \o SortRows([j \in 1..(Len(rows) - 1) |->
                                          IF j < k THEN rows[j] ELSE rows[j + 1]])

MinOf(S) == CHOOSE x \in S : \A y \in S : x <= y

InitRefresh ==
    /\ BridgeIdle
    /\ LedgerAtRest /\ StreamAtRest /\ MarketAtRest /\ SchedAtRest /\ PollAtRest
    /\ RefreshAtRest

\* setItems / setIsLoading(false) called by refresh r
Stale(r) == r # Len(refreshes)

\* the finally block of refresh r, which then is over
Finally(r, rs) ==
    /\ refreshes' = [rs EXCEPT ![r].pc = "done"]
    /\ IF ~rs[r].aborted
       THEN /\ isLoading' = FALSE
            /\ staleWrite' = (staleWrite \/ Stale(r))
       ELSE UNCHANGED <<isLoading, staleWrite>>

\* refreshFromChain up to its first await: the mount effect, the effect
\* after a confirmed transaction, or the Refresh button
RefreshStart ==
    /\ Len(refreshes) < MaxRefreshes
    /\ refreshes' = Append(
           IF refreshAbortRef # 0
           THEN [refreshes EXCEPT ![refreshAbortRef].aborted = TRUE]
           ELSE refreshes,
           [pc |-> "getBlockNumber", aborted |-> FALSE, ids |-> {}, todo |-> {},
            next |-> <<>>, inCatch |-> FALSE, wrote |-> FALSE])
    /\ refreshAbortRef' = Len(refreshes) + 1
    /\ isLoading' = TRUE
    /\ lastError' = ""
    /\ UNCHANGED <<items, cachedIds, itemsBy, staleWrite, refreshRest>>

\* getBlockNumber resolves: getLogsChunked asks for the (one) chunk, unless aborted
BlockNumberOk(r) ==
    /\ r \in DOMAIN refreshes
    /\ refreshes[r].pc = "getBlockNumber"
    /\ IF refreshes[r].aborted
       THEN Finally(r, refreshes) /\ UNCHANGED lastError
       ELSE /\ refreshes' = [refreshes EXCEPT ![r].pc = "getLogs"]
            /\ UNCHANGED <<isLoading, staleWrite, lastError>>
    /\ UNCHANGED <<items, refreshAbortRef, cachedIds, itemsBy, refreshRest>>

\* loadDetails(ids, signal) entered by refresh r, up to its first await
EnterLoadDetails(r, ids, rs) ==
    IF ids = {}
    THEN IF rs[r].inCatch
         THEN lastError' = CachedDataError /\ Finally(r, rs)
         ELSE UNCHANGED lastError /\ Finally(r, rs)
    ELSE /\ refreshes' = [rs EXCEPT ![r].pc = "readContract", ![r].ids = ids,
                                    ![r].todo = ids, ![r].next = <<>>]
         /\ UNCHANGED <<isLoading, staleWrite, lastError>>

\* getBlockNumber rejects: the catch block
BlockNumberFails(r) ==
    /\ r \in DOMAIN refreshes
    /\ refreshes[r].pc = "getBlockNumber"
    /\ IF refreshes[r].aborted
       THEN Finally(r, refreshes) /\ UNCHANGED lastError
       ELSE EnterLoadDetails(r, cachedIds, [refreshes EXCEPT ![r].inCatch = TRUE])
    /\ UNCHANGED <<items, refreshAbortRef, cachedIds, itemsBy, refreshRest>>

\* getLogs resolves with the ids logged (a failed chunk gives none):
\* mergeAndCacheIds, whose write to the store may fail, then loadDetails
LogsArrive(r, ids, stored) ==
    /\ r \in DOMAIN refreshes
    /\ refreshes[r].pc = "getLogs"
    /\ IF refreshes[r].aborted
       THEN Finally(r, refreshes) /\ UNCHANGED <<lastError, cachedIds>>
       ELSE /\ cachedIds' = IF stored THEN cachedIds \cup ids ELSE cachedIds
            /\ EnterLoadDetails(r, cachedIds \cup ids, refreshes)
    /\ UNCHANGED <<items, refreshAbortRef, itemsBy, refreshRest>>

\* the end of loadDetails without its last guard
LoadDetailsEnd_unguarded(r, rs) ==
    /\ items' = SortRows(rs[r].next)
    /\ itemsBy' = r
    /\ refreshes' = [rs EXCEPT ![r].wrote = TRUE, ![r].pc = "done"]
    /\ lastError' = IF rs[r].inCatch THEN CachedDataError ELSE lastError
    /\ isLoading' = IF rs[r].aborted THEN isLoading ELSE FALSE
    /\ staleWrite' = (staleWrite \/ Stale(r))

\* the end of loadDetails (lines 342-344) and what follows it in refreshFromChain
LoadDetailsEnd(r, rs) ==
    /\ IF ~rs[r].aborted
       THEN items' = SortRows(rs[r].next) /\ itemsBy' = r
       ELSE UNCHANGED <<items, itemsBy>>
    /\ refreshes' = [rs EXCEPT ![r].wrote = ~rs[r].aborted, ![r].pc = "done"]
    /\ lastError' = IF rs[r].inCatch THEN CachedDataError ELSE lastError
    /\ isLoading' = IF rs[r].aborted THEN isLoading ELSE FALSE
    /\ staleWrite' = (staleWrite \/ (~rs[r].aborted /\ Stale(r)))

\* readContract for the next id settles: status 0 is skipped, a failed read
\* ignored; then the loop's test of the signal, or its end
RowArrives(r, status, readOk) ==
    /\ r \in DOMAIN refreshes
    /\ refreshes[r].pc = "readContract"
    /\ LET id   == MinOf(refreshes[r].todo)
           left == refreshes[r].todo \ {id}
           rs   == [refreshes EXCEPT
                       ![r].todo = left,
                       ![r].next = IF readOk /\ status # 0
                                   THEN Append(@, Row(id, status)) ELSE @]
       IN  IF left = {}
           THEN LoadDetailsEnd(r, rs)
           ELSE IF rs[r].aborted
           THEN /\ refreshes' = [rs EXCEPT ![r].pc = "done"]
                /\ lastError' = IF rs[r].inCatch THEN CachedDataError ELSE lastError
                /\ UNCHANGED <<items, itemsBy, isLoading, staleWrite>>
           ELSE /\ refreshes' = rs
                /\ UNCHANGED <<items, itemsBy, isLoading, staleWrite, lastError>>
    /\ UNCHANGED <<refreshAbortRef, cachedIds, refreshRest>>

\* the stored ids outlive CACHE_TTL_MS: getCachedIds drops them
CacheExpires ==
    /\ cachedIds # {}
    /\ cachedIds' = {}
    /\ UNCHANGED <<items, isLoading, lastError, refreshAbortRef, refreshes, itemsBy,
                   staleWrite, refreshRest>>

NextRefresh ==
    \/ RefreshStart
    \/ CacheExpires
    \/ \E r \in 1..MaxRefreshes : BlockNumberOk(r)
    \/ \E r \in 1..MaxRefreshes : BlockNumberFails(r)
    \/ \E r \in 1..MaxRefreshes, ids \in SUBSET ListedIds, stored \in BOOLEAN : LogsArrive(r, ids, stored)
    \/ \E r \in 1..MaxRefreshes, status \in RowStatuses, readOk \in BOOLEAN : RowArrives(r, status, readOk)

SpecRefresh == InitRefresh /\ [][NextRefresh]_refreshVars

\* ------------------------------------------------------------------ claims
Kinds == [j \in 1..Len(txs) |-> txs[j].kind]
CountKind(k) == Cardinality({j \in 1..Len(txs) : txs[j].kind = k})
Running == inv.pc \notin {"idle", "done", "failed"}

\* C1: every burn call submitted, in either direction, carries a maxFee
\* strictly below its amount, and an invocation that ends with the fee
\* constraint error has submitted no transaction at all.
C1_MaxFeeBelowAmount ==
    /\ \A j \in 1..Len(txs) : txs[j].kind = "burn" => txs[j].maxFee < txs[j].value
    /\ inv.pc \in {"burnSubmit", "burnReceipt"} => inv.maxFee < inv.amount
    /\ inv.error \in {"fee_constraint", "invalid_fee"} => txs = <<>>

\* a burn went out whose maxFee was clamped to amount - 1
C1_Witness ==
    \E j \in 1..Len(txs) : txs[j].kind = "burn" /\ txs[j].maxFee = txs[j].value - 1

\* C2: from ARC the transactions go out as approve (when needed), then the
\* service fee, then the burn; nothing precedes a needed approval.
C2_HomeOrder ==
    inv.src = "ARC" =>
        /\ Kinds \in {<<>>, <<"approve">>, <<"approve", "fee">>, <<"approve", "fee", "burn">>,
                      <<"fee">>, <<"fee", "burn">>}
        /\ (Running /\ inv.allowance >= 0 /\ inv.allowance < inv.amount /\ txs # <<>>)
              => txs[1].kind = "approve"

C2_Witness == inv.src = "ARC" /\ Kinds = <<"approve", "fee", "burn">>

\* C3 (as claimed): once the approval or the service-fee transfer has a
\* receipt with a failure status, no later step is submitted.
C3_AbortOnFailedReceipt ==
    Running =>
        /\ ~inv.approveOk => txs[Len(txs)].kind = "approve"
        /\ ~inv.feeOk => txs[Len(txs)].kind = "fee"

\* C4: an approval is submitted exactly when the allowance read is below the
\* amount, at most once, for the amount, and ahead of every other transaction.
C4_ApproveOnlyIfNeeded ==
    /\ CountKind("approve") <= 1
    /\ \A j \in 1..Len(txs) : txs[j].kind = "approve" => j = 1
    /\ Running =>
          /\ \A j \in 1..Len(txs) : txs[j].kind = "approve" => txs[j].value = inv.amount
          /\ inv.allowance = -1 => txs = <<>>
          /\ inv.pc \in {"approveReceipt", "feeSubmit", "feeReceipt", "burnSubmit", "burnReceipt"}
                => CountKind("approve") = (IF inv.allowance < inv.amount THEN 1 ELSE 0)

\* an external-source transfer whose burn went out after exactly one approval
C4_Witness ==
    /\ inv.pc = "burnReceipt" /\ inv.src # "ARC"
    /\ inv.allowance = 0 /\ Kinds = <<"approve", "burn">>

\* C5: the history changes only when an invocation ends with a successful
\* burn receipt, and then by exactly its one record put in front; every
\* other step, every failing end included, leaves it unchanged.
C5_RecordOnlyOnSuccess ==
    [][ IF inv.pc # "done" /\ inv'.pc = "done"
        THEN /\ Len(history') = Len(history) + 1
             /\ history'[1].txHash = inv.n
             /\ \A j \in 1..Len(history) : history'[j + 1] = history[j]
             /\ \A j \in 1..Len(history) : history[j].txHash # inv.n
        ELSE history' = history ]_vars

\* a failed second invocation after a successful first one
C5_Witness == inv.pc = "failed" /\ inv.n = 2 /\ Len(history) = 1 /\ history[1].txHash = 1

\* C6: every transaction goes out on the source chain's network, and an
\* invocation that found the wallet elsewhere and asked for a switch submits
\* none, however the switch ends.
C6_OnSourceNetwork ==
    /\ \A j \in 1..Len(txs) : txs[j].chain = srcChainIdResolved(inv.src)
    /\ inv.pc = "switchWait" => txs = <<>>
    /\ inv.error \in {"click_again", "switch_rejected", "missing_rpc", "add_rejected"}
          => txs = <<>>

\* the switch went through, the wallet is on the source chain, and still the
\* invocation ended without a transaction
C6_Witness ==
    /\ inv.error = "click_again" /\ walletChain = srcChainIdResolved(inv.src)
    /\ lastCall.issuer = "bridge" /\ txs = <<>>

\* C7 (as claimed): selecting a source chain the wallet is not on issues
\* exactly one switch request.
C7_ExactlyOneSwitchRequest ==
    (lastTrigger.kind = "select" /\ ~lastTrigger.onSource /\ rpcUrl[sourceKey])
        => lastTrigger.switches = 1

\* C8: an event that finds the wallet on the selected source chain (a source
\* selection, a chain change, the start of onBridge) issues no wallet request.
C8_NoRequestOnTarget == lastTrigger.onSource => lastTrigger.switches = 0

\* onBridge started on an external source the wallet is already on
C8_Witness ==
    /\ lastTrigger.kind = "bridge" /\ lastTrigger.onSource
    /\ inv.src # "ARC" /\ inv.pc = "readBalance"

C10_BalanceFirst ==
    /\ inv.error = "insufficient_balance" => txs = <<>>
    /\ (Running /\ inv.pc \notin {"switchWait", "readRouter", "readMinFee", "readBalance"})
          => inv.bal >= (IF inv.src = "ARC" THEN inv.amount + inv.serviceFee ELSE inv.amount)
    /\ (Running /\ txs # <<>>)
          => inv.bal >= (IF inv.src = "ARC" THEN inv.amount + inv.serviceFee ELSE inv.amount)

\* from ARC, a balance that covers the amount but not the service fee
C10_Witness ==
    /\ inv.error = "insufficient_balance" /\ inv.src = "ARC"
    /\ inv.bal >= inv.amount /\ inv.bal < inv.amount + inv.serviceFee /\ txs = <<>>

\* C11: nothing is retried automatically.  Within one invocation each of the
\* approval, the service-fee transfer and the burn is submitted at most once
\* and a submitted transaction is never withdrawn; once an invocation has
\* ended, however it ended, no transaction goes out until the Bridge button
\* starts a new invocation, which starts with none submitted.
C11_NoAutomaticRetry ==
    /\ [](\A k \in {"approve", "fee", "burn"} : CountKind(k) <= 1)
    /\ [][ /\ (inv'.n = inv.n /\ txs' # txs)
                 => /\ Running
                    /\ Len(txs') = Len(txs) + 1
                    /\ \A j \in 1..Len(txs) : txs'[j] = txs[j]
           /\ inv'.n # inv.n
                 => /\ inv'.n = inv.n + 1
                    /\ events' = events + 1
                    /\ txs' = <<>> ]_vars

\* the burn prompt was rejected after the approval and the service fee had
\* gone out, and the invocation ended there
C11_Witness ==
    /\ inv.pc = "failed" /\ inv.error = "tx_rejected"
    /\ Kinds = <<"approve", "fee">>

\* C12: at most one onBridge invocation is between its start and its end.
\* While one runs the loading flag is set (and only then), and a new
\* invocation starts only from a state in which none is running.
C12_SingleFlight ==
    /\ [](Running <=> loading)
    /\ [][ inv'.n # inv.n => (~Running /\ ~loading) ]_vars

\* a second invocation is running, started after the first had gone through
\* all its steps and recorded its burn
C12_Witness == inv.n = 2 /\ Running /\ loading /\ Len(history) = 1

\* C13: a transfer from an external chain to ARC submits no service-fee
\* transfer, its only transactions being the approval (when needed) and the
\* burn, and its burn carries 32 zero bytes as destination caller.
C13_ExternalNoFeeZeroCaller ==
    inv.src # "ARC" =>
        /\ Kinds \in {<<>>, <<"approve">>, <<"burn">>, <<"approve", "burn">>}
        /\ \A j \in 1..Len(txs) :
              txs[j].kind = "burn" =>
                  /\ Len(txs[j].destCaller) = 32
                  /\ \A b \in 1..32 : txs[j].destCaller[b] = 0

\* an external-source transfer that went through: approval, burn, record
C13_Witness ==
    /\ inv.src # "ARC" /\ inv.pc = "done" /\ Kinds = <<"approve", "burn">>
    /\ Len(history) = 1

\* C14: a memo of more than 128 bytes is rejected by the validations, before
\* anything goes on chain: the invocation ends at once with the validation
\* error, opens no wallet prompt, is never at a contract read and submits no
\* transaction.
C14_LongMemoRejected ==
    /\ [](inv.memoLen > 128 => (inv.pc = "failed" /\ inv.error = "validation" /\ txs = <<>>))
    /\ [][ (inv'.n # inv.n /\ inv'.memoLen > 128)
              => (pending' = pending /\ lastTrigger' = lastTrigger /\ ~loading') ]_vars

\* a 129-byte memo was rejected while the wallet was on another network than
\* the selected source (a valid request would have opened the switch prompt)
C14_Witness ==
    /\ inv.memoLen = 129 /\ inv.error = "validation"
    /\ walletChain # srcChainIdResolved(sourceKey) /\ pending = <<>>

\* C15: the 32-byte encoding of an address is 12 zero bytes followed by the
\* 20 bytes of the address, taking the low-order 20 bytes back returns the
\* address, and the mintRecipient of a submitted burn is this encoding of
\* the recipient entered, or of the connected account when none was entered.
C15_MintRecipientEncoding ==
    /\ \A a \in {address, ZeroAddress} \cup {r \in Recipients : validateRecipient(r)} :
          /\ addressToBytes32(a) = <<0, 0, 0, 0, 0, 0, 0, 0, 0, 0, 0, 0>> \o a
          /\ bytes32ToAddress(addressToBytes32(a)) = a
    /\ Running => Len(inv.recipient) \in {0, 20}
    /\ inv.pc = "burnReceipt" =>
          /\ txs[Len(txs)].kind = "burn"
          /\ Len(txs[Len(txs)].mintRecipient) = 32
          /\ \A j \in 1..12 : txs[Len(txs)].mintRecipient[j] = 0
          /\ \A j \in 1..20 :
                txs[Len(txs)].mintRecipient[12 + j] =
                    (IF inv.recipient = <<>> THEN address[j] ELSE inv.recipient[j])

\* a burn went out for an entered recipient other than the connected account
C15_Witness ==
    /\ inv.pc = "burnReceipt" /\ Len(inv.recipient) = 20 /\ inv.recipient # address
    /\ txs[Len(txs)].mintRecipient[13] = 171 /\ txs[Len(txs)].mintRecipient[32] = 205

\* C16 (as claimed): with a fee cap configured, the maxFee of every burn that
\* is submitted is at most the cap, the protocol-minimum bump included.
C16_MaxFeeWithinCap ==
    feeCap > 0 =>
        /\ \A j \in 1..Len(txs) : txs[j].kind = "burn" => txs[j].maxFee <= feeCap
        /\ inv.pc \in {"readBalance", "readAllowance", "approveSubmit", "approveReceipt",
                       "feeSubmit", "feeReceipt", "burnSubmit", "burnReceipt"}
              => inv.maxFee <= feeCap

\* C17 (as claimed): when the protocol minimum read exceeds the candidate
\* and the buffered minimum (110%) reaches the amount, the invocation ends
\* with the fee-constraint error and submits nothing.
C17_BufferedMinRejected ==
    ( /\ inv.src = "ARC" /\ inv.minFee >= 0
      /\ inv.minFee > computeMaxFee(inv.amount, DestDomain(inv.dest), feeCap).maxFee
      /\ MulDiv(inv.minFee, 110, 100) >= inv.amount )
        => (inv.pc = "failed" /\ inv.error \in {"fee_constraint", "invalid_fee"} /\ txs = <<>>)

\* the steps of onBridge that follow the fee quote
AfterQuote == {"readBalance", "readAllowance", "approveSubmit", "approveReceipt",
               "feeSubmit", "feeReceipt", "burnSubmit", "burnReceipt"}

\* amount * 500 / 10000, truncating, written without the wide product
PctFee(amount) == (amount * (maxFeeBps \div 100)) \div 100

\* C18: with no cap configured and no protocol minimum above the candidate,
\* the maxFee quoted and submitted is the larger of amount * 500 / 10000
\* (truncating) and the floor of the destination domain.
C18_FeeIsMaxOfPctAndFloor ==
    LET domain == IF inv.src = "ARC" THEN DestDomain(inv.dest) ELSE arcDomain
        floor  == IF domain = 0 THEN 1250000 ELSE 200000
        expect == IF PctFee(inv.amount) > floor THEN PctFee(inv.amount) ELSE floor
    IN  (feeCap = 0 /\ inv.pc \in AfterQuote /\ inv.minFee <= expect) =>
            /\ inv.maxFee = expect
            /\ \A j \in 1..Len(txs) : txs[j].kind = "burn" => txs[j].maxFee = expect

\* 10.00 USDC to a destination with floor 0.20, protocol minimum 0.05: the
\* burn went out with maxFee 0.50
C18_Witness ==
    /\ feeCap = 0 /\ inv.pc = "burnReceipt" /\ inv.amount = 10000000
    /\ inv.dest = "BASE_SEPOLIA" /\ inv.minFee = 50000
    /\ txs[Len(txs)].kind = "burn" /\ txs[Len(txs)].maxFee = 500000

\* C19 (as claimed): the floor used for a transfer to ARC is strictly higher
\* than the floor used for a transfer to any external destination.  Seen on
\* a transfer to ARC whose percentage fee is below its floor, so that the
\* maxFee quoted is that floor.
C19_HomeFloorHigher ==
    (inv.src # "ARC" /\ inv.pc \in AfterQuote /\ feeCap = 0 /\ PctFee(inv.amount) < inv.maxFee)
        => \A d \in DestKeys : inv.maxFee > minForwardFeeUsdc(DestDomain(d))

\* C20 (as claimed): in both directions the quote asks the protocol for its
\* minimum fee (minFee = -1: never asked), and the maxFee carried on is not
\* below a minimum that is itself below the amount.
C20_ProtocolMinBothDirections ==
    inv.pc \in AfterQuote =>
        /\ inv.minFee # -1
        /\ (inv.minFee >= 0 /\ inv.minFee < inv.amount) => inv.maxFee >= inv.minFee

\* C21 (as claimed): a record carries, and is listed with, the direction of
\* the transfer that produced it: OTHER_TO_ARC for a transfer from an
\* external chain to ARC, ARC_TO_OTHER for a transfer from ARC.
C21_DirectionRecorded ==
    \A j \in 1..Len(history) :
        /\ history[j].direction = (IF history[j].src = "ARC" THEN "ARC_TO_OTHER"
                                   ELSE "OTHER_TO_ARC")
        /\ DirectionLabel(history[j]) = (IF history[j].src = "ARC" THEN "ARC -> Other"
                                         ELSE "Other -> ARC")

\* C24 (as claimed): an invocation from ARC whose service-fee transfer has
\* been confirmed goes on to submit its burn; it never ends, by a rejected
\* burn prompt or a failed submission, with the fee paid and no burn sent.
C24_FeeImpliesBurn ==
    [][ (inv.src = "ARC" /\ inv.pc = "burnSubmit" /\ inv.feeOk /\ CountKind("fee") = 1)
            => (inv'.pc = "burnSubmit" \/ CountKind("burn")' = 1) ]_vars

\* the records made so far, newest first
NewestFirst == [j \in 1..Len(confirmed) |-> confirmed[Len(confirmed) + 1 - j].item]

\* C22: the list is the records in reverse order of confirmation; page p
\* shows positions p*5 .. p*5+4 of that order (fewer at the end); and a step
\* never changes or drops a record the list held, a new one only going in
\* front.
C22_NewestFirstPages ==
    /\ [](/\ history = NewestFirst
          /\ \A p \in 0..(MaxHistory + 1) :
                LET shown == HistoryPageItems(history, p)
                IN  /\ Len(shown) = (IF Len(history) - p * 5 >= 5 THEN 5
                                     ELSE IF Len(history) - p * 5 > 0 THEN Len(history) - p * 5
                                     ELSE 0)
                    /\ \A k \in 1..Len(shown) : shown[k] = NewestFirst[p * 5 + k])
    /\ [][ /\ Len(history') \in {Len(history), Len(history) + 1}
           /\ \A j \in 1..Len(history) :
                 history'[Len(history') - Len(history) + j] = history[j] ]_<<history, ledgerVars>>

\* six records, with and without memo, the second page showing the oldest alone
C22_Witness ==
    /\ Len(history) = 6 /\ historyPage = 1
    /\ HistoryPageItems(history, historyPage) = <<confirmed[1].item>>
    /\ \E j \in 1..6 : history[j].memoLen = 128
    /\ \E j \in 1..6 : history[j].memoLen = 0

\* C23 (as claimed): the stored list is kept per (network id, router
\* address): the list read under one pair holds only records made under
\* that pair, and a store without the namespace is read as empty.
C23_NamespacedHistory ==
    \A j \in 1..Len(confirmed) :
        (\E i \in 1..Len(history) : history[i] = confirmed[j].item)
            => confirmed[j].under = deployment

\* C25: for every stream, the tokens the contract has transferred out for it
\* (the recipient's claims, the payout and the refund of cancel) never exceed
\* the total deposited for it; a canceled stream pays nothing more.
C25_StreamPaysAtMostTotal ==
    \A id \in DOMAIN streams : streamOut[id] <= streams[id].total

\* C26: an invoice is sold at most once: after a successful buyInvoice its
\* listing is never Active again and no second buyInvoice succeeds for it
\* (the registry reporting it Created by the same vendor throughout).
C26_SoldAtMostOnce ==
    \A id \in InvoiceIds :
        /\ sales[id] >= 1 => listings[id].status # "Active"
        /\ sales[id] <= 1

\* the successful execute calls of every schedule are spaced: none before
\* firstRun, two in a row at least intervalSeconds apart
ExecutionsSpaced ==
    \A id \in DOMAIN executions :
        LET e == executions[id]
        IN  /\ e.last # -1 => e.last >= e.firstRun
            /\ e.prev # -1 => e.last - e.prev >= e.intervalSeconds

\* a step made by an execute call that came before nextRun changes nothing
EarlyExecuteChangesNothing ==
    (lastCallOn'.fn = "execute" /\ lastCallOn'.early)
        => UNCHANGED <<schedules, scheduleCount, executions, deleted>>

\* C27 as stated: successful execute calls on a schedule are at least
\* intervalSeconds apart and none is before firstRun; an execute call with
\* block.timestamp < nextRun reverts with TooEarly and changes no state,
\* whoever calls.
C27_SpacedTooEarly ==
    /\ [](ExecutionsSpaced
          /\ ((lastCallOn.fn = "execute" /\ lastCallOn.early)
                 => lastCallOn.result = "TooEarly"))
    /\ [][EarlyExecuteChangesNothing]_schedVars

\* C27 amended: the same spacing; an execute call with block.timestamp <
\* nextRun reverts, with TooEarly when the schedule is active and with
\* NotActive when it is not, and changes no state, whoever calls.
C27_SpacedEarlyReverts ==
    /\ [](ExecutionsSpaced
          /\ ((lastCallOn.fn = "execute" /\ lastCallOn.early)
                 => lastCallOn.result = IF lastCallOn.wasActive THEN "TooEarly" ELSE "NotActive"))
    /\ [][EarlyExecuteChangesNothing]_schedVars

\* a schedule has run twice and a further call, made before its next run, was
\* turned away as too early
C27_Witness ==
    /\ lastCallOn.fn = "execute"
    /\ lastCallOn.result = "TooEarly"
    /\ \E id \in DOMAIN executions : executions[id].prev # -1

\* C28: only a schedule's payer changes its active flag or deletes it; a
\* deleted schedule stays inactive and no execute succeeds for its id again.
C28_PayerOnlyDeletedForGood ==
    /\ [](\A id \in deleted : ~scheduleAt(id).active)
    /\ [][\A id \in DOMAIN schedules :
             /\ (schedules'[id].active # schedules[id].active \/ (id \in deleted' /\ id \notin deleted))
                    => lastCallOn'.byPayer
             /\ id \in deleted => executions'[id] = executions[id]]_schedVars

\* the only schedule has been deleted by its payer after a run, and a later
\* execute call on it was turned away
C28_Witness ==
    /\ scheduleCount = 1
    /\ 1 \in deleted
    /\ executions[1].last # -1
    /\ lastCallOn.fn = "execute"
    /\ lastCallOn.result = "NotActive"

\* C29: pollDeploymentStatus makes at most MAX_POLL_ATTEMPTS status checks,
\* and a status check that reports FAILED is the last one: the function has
\* then thrown the "Deployment transaction failed" error instead of polling on.
C29_PollStopsOnFailed ==
    /\ Len(replies) <= MAX_POLL_ATTEMPTS
    /\ \A k \in 1..Len(replies) :
          replies[k] = "FAILED"
              => /\ k = Len(replies)
                 /\ pollPc = "thrown"
                 /\ pollError = "Deployment transaction failed"

\* no refresh has written the rows or cleared the loading flag after a newer
\* one had started, and every refresh but the newest has been aborted
EarlierRefreshesSilenced ==
    /\ ~staleWrite
    /\ \A r \in 1..(Len(refreshes) - 1) : refreshes[r].aborted

\* the newest refresh, 0 before the first
Newest == Len(refreshes)

\* C30 as stated: an earlier refresh is aborted when a newer one starts and
\* never calls setItems or setIsLoading(false) afterwards; once the newest
\* refresh is over, the rows shown are the rows it loaded and isLoading is false.
C30_RaceSafeRefresh ==
    /\ EarlierRefreshesSilenced
    /\ (Newest > 0 /\ refreshes[Newest].pc = "done")
          => /\ isLoading = FALSE
             /\ items = SortRows(refreshes[Newest].next)

\* C30 amended: the same for earlier refreshes; once the newest refresh is
\* over, isLoading is false, and the rows shown are the rows it loaded if it
\* had any id to load; if it had none (nothing logged or the request failed,
\* and nothing cached) the rows stay those of the last refresh that loaded some.
C30_RaceSafeRefreshOrKept ==
    /\ EarlierRefreshesSilenced
    /\ (Newest > 0 /\ refreshes[Newest].pc = "done")
          => /\ isLoading = FALSE
             /\ IF refreshes[Newest].ids # {}
                THEN /\ refreshes[Newest].wrote
                     /\ itemsBy = Newest
                     /\ items = SortRows(refreshes[Newest].next)
                ELSE /\ ~refreshes[Newest].wrote
                     /\ itemsBy < Newest
                     /\ itemsBy > 0 => /\ refreshes[itemsBy].wrote
                                       /\ items = SortRows(refreshes[itemsBy].next)

\* the first refresh was aborted while reading rows, went on after that
\* without showing the rows it had read, and the second one is over and
\* shows its own
C30_Witness ==
    /\ Len(refreshes) = 2
    /\ refreshes[1].aborted /\ refreshes[1].pc = "done"
    /\ refreshes[1].next # <<>> /\ ~refreshes[1].wrote
    /\ refreshes[2].pc = "done" /\ refreshes[2].wrote
    /\ itemsBy = 2 /\ Len(items) = 2

====
